---- MODULE Spec2Model ----
(***************************************************************************)
(* A model of CodeValidator.cpp: the validator selection (getValidator),   *)
(* the per-language check-then-run protocol (validate), and the            *)
(* single-flight job discipline of validateCode with its background        *)
(* validation thread and the WM_APP hand-off to the window procedure.      *)
(*                                                                         *)
(* Strings are sequences.  A path is a sequence of one-character strings;  *)
(* a literal of the program is one element ("javac "), so that `+` of the  *)
(* program is \o here.                                                     *)
(***************************************************************************)
EXTENDS Integers, Sequences, FiniteSets, TLC

VARIABLES
    g_mutex,                  \* owner of g_mutex: NoOwner, Foreground or Thread(j)
    g_validationInProgress,   \* the global flag
    filePathText,             \* text of the g_hwndFilePath edit control
    languageText,             \* selected text of g_hwndLanguageCombo
    resultText,               \* text of the g_hwndResultEdit edit control
    fgpc,                     \* where the foreground (window) thread is
    thr,                      \* thr[j]: the j-th validation thread
    started,                  \* number of validation threads constructed
    rejected,                 \* a submission has been rejected
    delivered,                \* delivered[j]: WM_APP messages of thread j handled
    sel,                      \* inputs and results of a direct call of the selector
    esc                       \* a direct call of escapeFilePath, statement by statement

vars == <<g_mutex, g_validationInProgress, filePathText, languageText, resultText,
          fgpc, thr, started, rejected, delivered, sel, esc>>

jobvars == <<g_mutex, g_validationInProgress, filePathText, languageText, resultText,
             fgpc, thr, started, rejected, delivered>>

----------------------------------------------------------------------------
(* Bounds of the model *)

MaxJobs == 2                 \* validation threads constructed in one behaviour

Jobs == 1..MaxJobs

MaxLen == 3                  \* length of a path given to escapeFilePath directly

----------------------------------------------------------------------------
(* Program constants *)

MAX_PATH == 260

(* Strings of the program *)
Lit(s) == <<s>>

x_py     == <<"x", ".", "p", "y">>
A_java   == <<"d", "\\", "A", ".", "j", "a", "v", "a">>
x_php    == <<"x", ".", "p", "h", "p">>
x_js     == <<"x", ".", "j", "s">>
x_xyz    == <<"x", ".", "x", "y", "z">>
x_PY     == <<"x", ".", "P", "Y">>
x_noext  == <<"x">>
dot_py   == <<".", "p", "y">>
dir_py   == <<"a", ".", "d", "/", "x", ".", "p", "y">>
dir_dot  == <<"a", ".", "p", "y", "\\", "x">>
missing_py == <<"m", ".", "p", "y">>
amp_java == <<"d", "\\", "A", "&", "B", ".", "j", "a", "v", "a">>

(* Paths the user types or browses to in the job model *)
UiPaths == {<<>>, x_py, A_java, x_xyz}

(* Paths given to the selector when it is called directly *)
ProbePaths == UiPaths \cup {x_php, x_js, x_PY, x_noext, dot_py, dir_py, dir_dot, missing_py}

(* Paths of existing files handed to validate when the validators are     *)
(* exercised one by one                                                   *)
ValPaths == {x_py, dir_py, A_java, amp_java, x_php, x_js}

(* Characters of the paths given to escapeFilePath directly *)
EscAlphabet == {"a", "\\", "\""}

EscPaths == UNION {[1..n -> EscAlphabet] : n \in 0..MaxLen}

(* The items of the language combo box *)
ComboItems == {"Auto-detect", "Java", "Python", "PHP", "JavaScript"}

(* Tags given to the selector when it is called directly *)
ProbeTags == ComboItems \cup {"auto", "Ruby", "java", ""}

(* What a check may print: nothing, a syntax error, PHP's all-clear, other text *)
ToolOutputs == {<<>>, <<"SyntaxError">>, <<"No syntax errors">>, <<"warning">>}

(* What the validated program may print *)
RunOutputs == {<<>>, <<"hi">>}

(* what() of a std::exception raised inside the try block *)
ExceptionWhats == {"bad allocation"}

----------------------------------------------------------------------------
(* std::filesystem::path decomposition *)

IsSeparator(c) == c \in {"/", "\\"}

Max(S) == CHOOSE m \in S : \A k \in S : k <= m
Min(S) == CHOOSE m \in S : \A k \in S : m <= k

LastSeparator(p) ==
    LET I == {i \in 1..Len(p) : IsSeparator(p[i])}
    IN  IF I = {} THEN 0 ELSE Max(I)

filename(p) == SubSeq(p, LastSeparator(p) + 1, Len(p))

extension(p) ==
    LET f == filename(p)
        D == {i \in 1..Len(f) : f[i] = "."}
    IN  IF f = <<".">> \/ f = <<".", ".">> \/ D = {} THEN <<>>
        ELSE IF Max(D) = 1 THEN <<>>
        ELSE SubSeq(f, Max(D), Len(f))

stem(p) ==
    LET f == filename(p)
    IN  SubSeq(f, 1, Len(f) - Len(extension(p)))

parent_path(p) ==
    LET i == LastSeparator(p)
        B == {k \in 1..i : ~IsSeparator(p[k])}
    IN  IF i = 0 THEN <<>>
        ELSE IF B = {} THEN SubSeq(p, 1, 1)
        ELSE SubSeq(p, 1, Max(B))

----------------------------------------------------------------------------
(* LanguageValidator *)

RECURSIVE EscapeLoop(_, _)
EscapeLoop(escaped, pos) ==
    LET F == {i \in pos..Len(escaped) : escaped[i] = "\\"}
    IN  IF F = {} THEN escaped
        ELSE LET at == Min(F)
             IN  EscapeLoop(SubSeq(escaped, 1, at - 1) \o <<"\\", "\\">>
                              \o SubSeq(escaped, at + 1, Len(escaped)),
                            at + 2)

escapeFilePath(filePath) == <<"\"">> \o EscapeLoop(filePath, 1) \o <<"\"">>

Variants == {"Java", "Python", "PHP", "JavaScript"}

nullptr == "nullptr"

VariantExtension(v) ==
    CASE v = "Java"       -> <<".", "j", "a", "v", "a">>
      [] v = "Python"     -> <<".", "p", "y">>
      [] v = "PHP"        -> <<".", "p", "h", "p">>
      [] v = "JavaScript" -> <<".", "j", "s">>

isCompatible(v, filePath) == extension(filePath) = VariantExtension(v)

CheckCommand(v, filePath) ==
    CASE v = "Java"       -> Lit("javac ") \o escapeFilePath(filePath) \o Lit(" 2>&1")
      [] v = "Python"     -> Lit("python -m py_compile ") \o escapeFilePath(filePath) \o Lit(" 2>&1")
      [] v = "PHP"        -> Lit("php -l ") \o escapeFilePath(filePath) \o Lit(" 2>&1")
      [] v = "JavaScript" -> Lit("node --check ") \o escapeFilePath(filePath) \o Lit(" 2>&1")

RunCommand(v, filePath) ==
    CASE v = "Java"       -> Lit("cd ") \o escapeFilePath(parent_path(filePath))
                               \o Lit(" && java ") \o stem(filePath) \o Lit(" 2>&1")
      [] v = "Python"     -> Lit("python ") \o escapeFilePath(filePath) \o Lit(" 2>&1")
      [] v = "PHP"        -> Lit("php ") \o escapeFilePath(filePath) \o Lit(" 2>&1")
      [] v = "JavaScript" -> Lit("node ") \o escapeFilePath(filePath) \o Lit(" 2>&1")

(* std::string::find of a marker the tools print as one piece *)
Contains(s, marker) == \E i \in 1..Len(s) : s[i] = marker

(* CheckFails with PHP's test made the test of Java and JavaScript *)
CheckFails_PhpNonEmpty(v, checkResult) ==
    CASE v = "Java"       -> checkResult # <<>>
      [] v = "Python"     -> checkResult # <<>> /\ Contains(checkResult, "SyntaxError")
      [] v = "PHP"        -> checkResult # <<>>
      [] v = "JavaScript" -> checkResult # <<>>

(* CheckFails with Python's test for the marker left out *)
CheckFails_PythonNonEmpty(v, checkResult) ==
    CASE v = "Java"       -> checkResult # <<>>
      [] v = "Python"     -> checkResult # <<>>
      [] v = "PHP"        -> ~Contains(checkResult, "No syntax errors")
      [] v = "JavaScript" -> checkResult # <<>>

(* The test after the check command: TRUE when validate returns the error *)
CheckFails(v, checkResult) ==
    CASE v = "Java"       -> checkResult # <<>>
      [] v = "Python"     -> checkResult # <<>> /\ Contains(checkResult, "SyntaxError")
      [] v = "PHP"        -> ~Contains(checkResult, "No syntax errors")
      [] v = "JavaScript" -> checkResult # <<>>

CheckErrorPrefix(v) ==
    IF v = "Java" THEN Lit("Compilation errors:\n") ELSE Lit("Syntax errors:\n")

SuccessBanner == Lit("Compilation successful.\nExecution output:\n")

(* executeCommand when _popen returns no pipe *)
PopenFailed(command) == Lit("Error executing command: ") \o command

----------------------------------------------------------------------------
(* getValidator *)

(* getValidator comparing the extension without regard to letter case *)
getValidator_IgnoreCase(language, filePath) ==
    IF language = "Auto-detect"
    THEN LET lower(c) == CASE c = "P" -> "p" [] c = "Y" -> "y" [] OTHER -> c
             e == extension(filePath)
             ext == [i \in 1..Len(e) |-> lower(e[i])]
         IN  IF ext = <<".", "j", "a", "v", "a">> THEN "Java"
             ELSE IF ext = <<".", "p", "y">> THEN "Python"
             ELSE IF ext = <<".", "p", "h", "p">> THEN "PHP"
             ELSE IF ext = <<".", "j", "s">> THEN "JavaScript"
             ELSE nullptr
    ELSE IF language = "Java" THEN "Java"
    ELSE IF language = "Python" THEN "Python"
    ELSE IF language = "PHP" THEN "PHP"
    ELSE IF language = "JavaScript" THEN "JavaScript"
    ELSE nullptr

(* getValidator with two rows of the extension table exchanged *)
getValidator_RowsExchanged(language, filePath) ==
    IF language = "Auto-detect"
    THEN LET ext == extension(filePath)
         IN  IF ext = <<".", "j", "a", "v", "a">> THEN "Java"
             ELSE IF ext = <<".", "p", "y">> THEN "PHP"
             ELSE IF ext = <<".", "p", "h", "p">> THEN "Python"
             ELSE IF ext = <<".", "j", "s">> THEN "JavaScript"
             ELSE nullptr
    ELSE IF language = "Java" THEN "Java"
    ELSE IF language = "Python" THEN "Python"
    ELSE IF language = "PHP" THEN "PHP"
    ELSE IF language = "JavaScript" THEN "JavaScript"
    ELSE nullptr

(* getValidator looking at the extension first, whatever the tag *)
getValidator_ExtensionFirst(language, filePath) ==
    LET ext == extension(filePath)
    IN  IF ext = <<".", "j", "a", "v", "a">> THEN "Java"
        ELSE IF ext = <<".", "p", "y">> THEN "Python"
        ELSE IF ext = <<".", "p", "h", "p">> THEN "PHP"
        ELSE IF ext = <<".", "j", "s">> THEN "JavaScript"
        ELSE IF language = "Java" THEN "Java"
        ELSE IF language = "Python" THEN "Python"
        ELSE IF language = "PHP" THEN "PHP"
        ELSE IF language = "JavaScript" THEN "JavaScript"
        ELSE nullptr

getValidator(language, filePath) ==
    IF language = "Auto-detect"
    THEN LET ext == extension(filePath)
         IN  IF ext = <<".", "j", "a", "v", "a">> THEN "Java"
             ELSE IF ext = <<".", "p", "y">> THEN "Python"
             ELSE IF ext = <<".", "p", "h", "p">> THEN "PHP"
             ELSE IF ext = <<".", "j", "s">> THEN "JavaScript"
             ELSE nullptr
    ELSE IF language = "Java" THEN "Java"
    ELSE IF language = "Python" THEN "Python"
    ELSE IF language = "PHP" THEN "PHP"
    ELSE IF language = "JavaScript" THEN "JavaScript"
    ELSE nullptr

----------------------------------------------------------------------------
(* The body of the try block of the validation thread, up to the call of    *)
(* validate.  fileExists is what std::filesystem::exists returned.  invoke  *)
(* tells that validator->validate(filePath) is called; otherwise result is  *)
(* the thread's result.                                                     *)

(* Dispatch with the existence check made before the test for an empty path *)
Dispatch_ExistsFirst(filePath, language, fileExists) ==
    IF ~fileExists
    THEN [invoke |-> FALSE, validator |-> nullptr, kind |-> "input",
          result |-> Lit("File does not exist: ") \o filePath]
    ELSE IF filePath = <<>>
    THEN [invoke |-> FALSE, validator |-> nullptr, kind |-> "input",
          result |-> Lit("Please select a file to validate.")]
    ELSE LET validator == getValidator(language, filePath)
         IN  IF validator = nullptr
             THEN [invoke |-> FALSE, validator |-> nullptr, kind |-> "selection",
                   result |-> Lit("Unsupported file type or language selection.")]
             ELSE IF ~isCompatible(validator, filePath)
             THEN [invoke |-> FALSE, validator |-> validator, kind |-> "selection",
                   result |-> Lit("Selected language doesn't match the file extension.")]
             ELSE [invoke |-> TRUE, validator |-> validator, kind |-> "none",
                   result |-> <<>>]

(* Dispatch with the test of isCompatible left out *)
Dispatch_NoCompatCheck(filePath, language, fileExists) ==
    IF filePath = <<>>
    THEN [invoke |-> FALSE, validator |-> nullptr, kind |-> "input",
          result |-> Lit("Please select a file to validate.")]
    ELSE IF ~fileExists
    THEN [invoke |-> FALSE, validator |-> nullptr, kind |-> "input",
          result |-> Lit("File does not exist: ") \o filePath]
    ELSE LET validator == getValidator(language, filePath)
         IN  IF validator = nullptr
             THEN [invoke |-> FALSE, validator |-> nullptr, kind |-> "selection",
                   result |-> Lit("Unsupported file type or language selection.")]
             ELSE [invoke |-> TRUE, validator |-> validator, kind |-> "none",
                   result |-> <<>>]

Dispatch(filePath, language, fileExists) ==
    IF filePath = <<>>
    THEN [invoke |-> FALSE, validator |-> nullptr, kind |-> "input",
          result |-> Lit("Please select a file to validate.")]
    ELSE IF ~fileExists
    THEN [invoke |-> FALSE, validator |-> nullptr, kind |-> "input",
          result |-> Lit("File does not exist: ") \o filePath]
    ELSE LET validator == getValidator(language, filePath)
         IN  IF validator = nullptr
             THEN [invoke |-> FALSE, validator |-> nullptr, kind |-> "selection",
                   result |-> Lit("Unsupported file type or language selection.")]
             ELSE IF ~isCompatible(validator, filePath)
             THEN [invoke |-> FALSE, validator |-> validator, kind |-> "selection",
                   result |-> Lit("Selected language doesn't match the file extension.")]
             ELSE [invoke |-> TRUE, validator |-> validator, kind |-> "none",
                   result |-> <<>>]

(* The two catch clauses of the validation thread *)
CatchHandler(e) ==
    IF e.std
    THEN Lit("Error occurred during validation: ") \o Lit(e.what)
    ELSE Lit("Unknown error occurred during validation.")

(* GetWindowText into a buffer of nMaxCount characters *)
GetWindowText(text, nMaxCount) ==
    IF Len(text) <= nMaxCount - 1 THEN text ELSE SubSeq(text, 1, nMaxCount - 1)

(* WideCharToMultiByte / MultiByteToWideChar with the terminator, then resize *)
ConvertString(s) ==
    LET size_needed == Len(s) + 1
        buffer == s \o <<"\\0">>
    IN  SubSeq(buffer, 1, size_needed - 1)

----------------------------------------------------------------------------
(* State *)

NoOwner == <<>>
Foreground == <<"foreground">>
Thread(j) == <<"thread", j>>

Unborn ==
    [pc |-> "unborn", filePath |-> <<>>, language |-> "", validator |-> nullptr,
     fileExists |-> "uncalled", result |-> <<>>, kind |-> "none", calls |-> 0,
     what |-> "", lParam |-> <<>>, commands |-> <<>>, checkResult |-> <<>>]

Finished == [Unborn EXCEPT !.pc = "done"]

EscIdle == [filePath |-> <<>>, escaped |-> <<>>, pos |-> 1, pc |-> "idle",
            result |-> <<>>, replaced |-> 0]

SelIdle == [language |-> "", filePath |-> <<>>, called |-> FALSE,
            validator |-> nullptr, outcome |-> Dispatch(<<>>, "", TRUE)]

JobInit ==
    /\ g_mutex = NoOwner
    /\ g_validationInProgress = FALSE
    /\ filePathText = <<>>
    /\ languageText = "Auto-detect"
    /\ resultText = <<>>
    /\ fgpc = "loop"
    /\ thr = [j \in Jobs |-> Unborn]
    /\ started = 0
    /\ rejected = FALSE
    /\ delivered = [j \in Jobs |-> 0]

Init == JobInit /\ sel = SelIdle /\ esc = EscIdle

----------------------------------------------------------------------------
(* The user at the window, served by the message loop of WinMain *)

(* GetMessage, in the loop of WinMain or of a modal box, hands a sent     *)
(* message to WindowProc before it returns a queued input message: the   *)
(* user's input is served when no WM_APP message waits.                  *)
NoSentMessage == \A j \in Jobs : thr[j].pc # "sent"

(* Typing into the file path edit control *)
UserEditPath(p) ==
    /\ fgpc = "loop"
    /\ NoSentMessage
    /\ filePathText # p
    /\ filePathText' = p
    /\ UNCHANGED <<g_mutex, g_validationInProgress, languageText, resultText, fgpc,
                   thr, started, rejected, delivered, sel, esc>>

(* Choosing an item of the language combo box *)
UserSelectLanguage(l) ==
    /\ fgpc = "loop"
    /\ NoSentMessage
    /\ languageText # l
    /\ languageText' = l
    /\ UNCHANGED <<g_mutex, g_validationInProgress, filePathText, resultText, fgpc,
                   thr, started, rejected, delivered, sel, esc>>

(* browseForFile, the dialog confirmed with fileName *)
browseForFile(fileName) ==
    /\ fgpc = "loop"
    /\ NoSentMessage
    /\ fileName # <<>>
    /\ filePathText' = fileName
    /\ languageText' =
         LET ext == extension(fileName)
         IN  IF ext = <<".", "j", "a", "v", "a">> THEN "Java"
             ELSE IF ext = <<".", "p", "y">> THEN "Python"
             ELSE IF ext = <<".", "p", "h", "p">> THEN "PHP"
             ELSE IF ext = <<".", "j", "s">> THEN "JavaScript"
             ELSE languageText
    /\ <<filePathText', languageText'>> # <<filePathText, languageText>>
    /\ UNCHANGED <<g_mutex, g_validationInProgress, resultText, fgpc,
                   thr, started, rejected, delivered, sel, esc>>

(* WM_COMMAND of IDC_VALIDATE_BUTTON: WindowProc calls validateCode *)
ClickValidate ==
    /\ fgpc = "loop"
    /\ NoSentMessage
    /\ started < MaxJobs
    /\ fgpc' = "vc_lock"
    /\ UNCHANGED <<g_mutex, g_validationInProgress, filePathText, languageText,
                   resultText, thr, started, rejected, delivered, sel, esc>>

----------------------------------------------------------------------------
(* validateCode, on the foreground thread *)

(* std::lock_guard<std::mutex> lock(g_mutex) *)
FgLock ==
    /\ fgpc = "vc_lock"
    /\ g_mutex = NoOwner
    /\ g_mutex' = Foreground
    /\ fgpc' = "vc_test"
    /\ UNCHANGED <<g_validationInProgress, filePathText, languageText, resultText,
                   thr, started, rejected, delivered, sel, esc>>

(* FgTestAndSet with the test of the flag left out *)
FgTestAndSet_NoTest ==
    /\ fgpc = "vc_test"
    /\ g_validationInProgress' = TRUE
    /\ g_mutex' = NoOwner
    /\ fgpc' = "vc_start"
    /\ UNCHANGED <<filePathText, languageText, resultText, thr, started, rejected,
                   delivered, sel, esc>>

(* FgTestAndSet with "Validating..." shown before the flag is tested *)
FgTestAndSet_ShowsValidating ==
    /\ fgpc = "vc_test"
    /\ resultText' = Lit("Validating...")
    /\ IF g_validationInProgress
       THEN /\ fgpc' = "msgbox"
            /\ rejected' = TRUE
            /\ UNCHANGED <<g_mutex, g_validationInProgress>>
       ELSE /\ g_validationInProgress' = TRUE
            /\ g_mutex' = NoOwner
            /\ fgpc' = "vc_start"
            /\ UNCHANGED rejected
    /\ UNCHANGED <<filePathText, languageText, thr, started, delivered, sel, esc>>

(* The test of the flag under the lock: either the message box is shown,  *)
(* the lock still held, or the flag is set and the lock released.         *)
FgTestAndSet ==
    /\ fgpc = "vc_test"
    /\ IF g_validationInProgress
       THEN /\ fgpc' = "msgbox"
            /\ rejected' = TRUE
            /\ UNCHANGED <<g_mutex, g_validationInProgress>>
       ELSE /\ g_validationInProgress' = TRUE
            /\ g_mutex' = NoOwner
            /\ fgpc' = "vc_start"
            /\ UNCHANGED rejected
    /\ UNCHANGED <<filePathText, languageText, resultText, thr, started, delivered, sel, esc>>

(* FgDismiss with the early return leaving g_mutex locked *)
FgDismiss_NoUnlock ==
    /\ fgpc = "msgbox"
    /\ NoSentMessage
    /\ fgpc' = "loop"
    /\ UNCHANGED <<g_mutex, g_validationInProgress, filePathText, languageText,
                   resultText, thr, started, rejected, delivered, sel, esc>>

(* The user closes the "Validation already in progress" box: validateCode *)
(* returns and the lock_guard releases g_mutex.                           *)
FgDismiss ==
    /\ fgpc = "msgbox"
    /\ NoSentMessage
    /\ g_mutex' = NoOwner
    /\ fgpc' = "loop"
    /\ UNCHANGED <<g_validationInProgress, filePathText, languageText, resultText,
                   thr, started, rejected, delivered, sel, esc>>

(* FgShowStatus without the SetWindowText of "Validating..." *)
FgShowStatus_NoStatus ==
    /\ fgpc = "vc_start"
    /\ LET filePath == ConvertString(GetWindowText(filePathText, MAX_PATH))
           language == languageText
       IN  thr' = [thr EXCEPT ![started + 1] =
                     [Unborn EXCEPT !.filePath = filePath, !.language = language]]
    /\ fgpc' = "vc_thread"
    /\ UNCHANGED <<g_mutex, g_validationInProgress, filePathText, languageText,
                   resultText, started, rejected, delivered, sel, esc>>

(* validateCode after the flag is set: the two controls are read into the *)
(* locals filePath and language, kept here in the record of the thread    *)
(* that is to capture them, and "Validating..." is shown.                 *)
FgShowStatus ==
    /\ fgpc = "vc_start"
    /\ LET filePath == ConvertString(GetWindowText(filePathText, MAX_PATH))
           language == languageText
       IN  thr' = [thr EXCEPT ![started + 1] =
                     [Unborn EXCEPT !.filePath = filePath, !.language = language]]
    /\ resultText' = Lit("Validating...")
    /\ fgpc' = "vc_thread"
    /\ UNCHANGED <<g_mutex, g_validationInProgress, filePathText, languageText,
                   started, rejected, delivered, sel, esc>>

(* The thread is constructed with copies of filePath and language and     *)
(* detached; validateCode returns.                                        *)
FgStartThread ==
    /\ fgpc = "vc_thread"
    /\ thr' = [thr EXCEPT ![started + 1].pc = "try"]
    /\ started' = started + 1
    /\ fgpc' = "loop"
    /\ UNCHANGED <<g_mutex, g_validationInProgress, filePathText, languageText,
                   resultText, rejected, delivered, sel, esc>>

(* The constructor of std::thread throws std::system_error: no thread is  *)
(* started, the locals are destroyed and the exception leaves             *)
(* validateCode and WindowProc with the flag set.  No handler is in       *)
(* WinMain: either the process is terminated, or the dispatch of the      *)
(* window message swallows the exception and the message loop goes on.    *)
FgThreadFails ==
    /\ fgpc = "vc_thread"
    /\ thr' = [thr EXCEPT ![started + 1] = Unborn]
    /\ fgpc' \in {"terminated", "loop"}
    /\ UNCHANGED <<g_mutex, g_validationInProgress, filePathText, languageText,
                   resultText, started, rejected, delivered, sel, esc>>

(* WindowProc, case WM_APP: runs when the foreground thread retrieves     *)
(* messages, in the loop of WinMain or in the loop of the message box.    *)
(* SendMessage of thread j returns when the handler has returned.         *)
WindowProcApp(j) ==
    /\ fgpc \in {"loop", "msgbox"}
    /\ thr[j].pc = "sent"
    /\ resultText' = thr[j].lParam
    /\ delivered' = [delivered EXCEPT ![j] = @ + 1]
    /\ thr' = [thr EXCEPT ![j].pc = "lock", ![j].lParam = <<>>]
    /\ UNCHANGED <<g_mutex, g_validationInProgress, filePathText, languageText,
                   fgpc, started, rejected, sel, esc>>

----------------------------------------------------------------------------
(* The validation thread: the lambda of validateCode *)

(* BgTry with the lambda reading the two controls instead of its captures *)
BgTry_ReadsControls(j) ==
    /\ thr[j].pc = "try"
    /\ \E fileExists \in BOOLEAN :
         LET d == Dispatch(filePathText, languageText, fileExists)
             t == [thr[j] EXCEPT !.validator = d.validator,
                                 !.fileExists = IF filePathText = <<>> THEN "uncalled"
                                                ELSE IF fileExists THEN "true"
                                                ELSE "false"]
         IN  thr' = [thr EXCEPT ![j] =
                       IF d.invoke
                       THEN [t EXCEPT !.pc = "check"]
                       ELSE [t EXCEPT !.pc = "send", !.result = d.result,
                                      !.kind = d.kind]]
    /\ UNCHANGED <<g_mutex, g_validationInProgress, filePathText, languageText,
                   resultText, fgpc, started, rejected, delivered, sel, esc>>

(* The try block up to the call of validate *)
BgTry(j) ==
    /\ thr[j].pc = "try"
    /\ \E fileExists \in BOOLEAN :
         LET d == Dispatch(thr[j].filePath, thr[j].language, fileExists)
             t == [thr[j] EXCEPT !.validator = d.validator,
                                 !.fileExists = IF thr[j].filePath = <<>> THEN "uncalled"
                                                ELSE IF fileExists THEN "true"
                                                ELSE "false"]
         IN  thr' = [thr EXCEPT ![j] =
                       IF d.invoke
                       THEN [t EXCEPT !.pc = "check"]
                       ELSE [t EXCEPT !.pc = "send", !.result = d.result,
                                      !.kind = d.kind]]
    /\ UNCHANGED <<g_mutex, g_validationInProgress, filePathText, languageText,
                   resultText, fgpc, started, rejected, delivered, sel, esc>>

(* Caught with SendMessage inside the try block: the handler skips it *)
Caught_NoSend(j, w) ==
    thr' = [thr EXCEPT ![j] =
              [@ EXCEPT !.pc = "lock", !.kind = "exception", !.what = w,
                        !.result = CatchHandler([std |-> TRUE, what |-> w])]]

(* A std::exception leaves the try block and is caught *)
Caught(j, w) ==
    thr' = [thr EXCEPT ![j] =
              [@ EXCEPT !.pc = "send", !.kind = "exception", !.what = w,
                        !.result = CatchHandler([std |-> TRUE, what |-> w])]]

(* std::filesystem::exists or the path construction throws *)
BgTryThrows(j) ==
    /\ thr[j].pc = "try"
    /\ thr[j].filePath # <<>>
    /\ \E w \in ExceptionWhats : Caught(j, w)
    /\ UNCHANGED <<g_mutex, g_validationInProgress, filePathText, languageText,
                   resultText, fgpc, started, rejected, delivered, sel, esc>>

(* validate, after executeCommand of the check command returned checkResult *)
CheckDone(t, checkResult) ==
    IF CheckFails(t.validator, checkResult)
    THEN [t EXCEPT !.pc = "send", !.kind = "compile", !.checkResult = checkResult,
                   !.result = CheckErrorPrefix(t.validator) \o checkResult]
    ELSE [t EXCEPT !.pc = "run", !.checkResult = checkResult]

(* validate, after executeCommand of the run command returned runResult *)
RunDone(t, runResult) ==
    [t EXCEPT !.pc = "send", !.kind = "run", !.result = SuccessBanner \o runResult]

(* The command line validate hands to executeCommand in its check or run  *)
(* call; t.commands lists these calls in the order they were made.        *)
CommandLine(t, phase) ==
    IF phase = "check" THEN CheckCommand(t.validator, t.filePath)
    ELSE RunCommand(t.validator, t.filePath)

(* executeCommand(check command): _popen starts the subprocess or fails *)
BgCheckStart(j) ==
    /\ thr[j].pc = "check"
    /\ \E piped \in BOOLEAN :
         LET t == [thr[j] EXCEPT !.calls = @ + 1,
                                 !.commands = Append(@, "check")]
         IN  thr' = [thr EXCEPT ![j] =
                       IF piped THEN [t EXCEPT !.pc = "checking"]
                       ELSE CheckDone(t, PopenFailed(CommandLine(t, "check")))]
    /\ UNCHANGED <<g_mutex, g_validationInProgress, filePathText, languageText,
                   resultText, fgpc, started, rejected, delivered, sel, esc>>

(* The check subprocess exits; fgets has read all it printed *)
BgCheckExit(j) ==
    /\ thr[j].pc = "checking"
    /\ \E out \in ToolOutputs : thr' = [thr EXCEPT ![j] = CheckDone(@, out)]
    /\ UNCHANGED <<g_mutex, g_validationInProgress, filePathText, languageText,
                   resultText, fgpc, started, rejected, delivered, sel, esc>>

(* executeCommand(run command) *)
BgRunStart(j) ==
    /\ thr[j].pc = "run"
    /\ \E piped \in BOOLEAN :
         LET t == [thr[j] EXCEPT !.calls = @ + 1,
                                 !.commands = Append(@, "run")]
         IN  thr' = [thr EXCEPT ![j] =
                       IF piped THEN [t EXCEPT !.pc = "running"]
                       ELSE RunDone(t, PopenFailed(CommandLine(t, "run")))]
    /\ UNCHANGED <<g_mutex, g_validationInProgress, filePathText, languageText,
                   resultText, fgpc, started, rejected, delivered, sel, esc>>

(* The run subprocess exits *)
BgRunExit(j) ==
    /\ thr[j].pc = "running"
    /\ \E out \in RunOutputs : thr' = [thr EXCEPT ![j] = RunDone(@, out)]
    /\ UNCHANGED <<g_mutex, g_validationInProgress, filePathText, languageText,
                   resultText, fgpc, started, rejected, delivered, sel, esc>>

(* A std::exception raised inside validate (building a command string) *)
BgValidateThrows(j) ==
    /\ thr[j].pc \in {"check", "run"}
    /\ \E w \in ExceptionWhats : Caught(j, w)
    /\ UNCHANGED <<g_mutex, g_validationInProgress, filePathText, languageText,
                   resultText, fgpc, started, rejected, delivered, sel, esc>>

(* BgSendMessage with the flag cleared before the message is sent *)
BgSendMessage_ClearFirst(j) ==
    /\ thr[j].pc = "send"
    /\ g_mutex = NoOwner
    /\ g_validationInProgress' = FALSE
    /\ thr' = [thr EXCEPT ![j].pc = "sent", ![j].lParam = ConvertString(thr[j].result)]
    /\ UNCHANGED <<g_mutex, filePathText, languageText,
                   resultText, fgpc, started, rejected, delivered, sel, esc>>

(* SendMessage(hwnd, WM_APP, 0, new std::wstring(wideResult)): the thread *)
(* waits until WindowProc has handled the message.                        *)
BgSendMessage(j) ==
    /\ thr[j].pc = "send"
    /\ thr' = [thr EXCEPT ![j].pc = "sent", ![j].lParam = ConvertString(thr[j].result)]
    /\ UNCHANGED <<g_mutex, g_validationInProgress, filePathText, languageText,
                   resultText, fgpc, started, rejected, delivered, sel, esc>>

(* std::lock_guard<std::mutex> lock(g_mutex) at the end of the lambda *)
BgLock(j) ==
    /\ thr[j].pc = "lock"
    /\ g_mutex = NoOwner
    /\ g_mutex' = Thread(j)
    /\ thr' = [thr EXCEPT ![j].pc = "unlock"]
    /\ UNCHANGED <<g_validationInProgress, filePathText, languageText,
                   resultText, fgpc, started, rejected, delivered, sel, esc>>

(* g_validationInProgress = false; the lambda returns, releasing the lock *)
BgClear(j) ==
    /\ thr[j].pc = "unlock"
    /\ g_validationInProgress' = FALSE
    /\ g_mutex' = NoOwner
    /\ thr' = [thr EXCEPT ![j] = Finished]
    /\ UNCHANGED <<filePathText, languageText, resultText, fgpc, started, rejected, delivered, sel, esc>>

----------------------------------------------------------------------------
(* The selector and the dispatch called directly on chosen arguments *)

SelInputs ==
    {[SelIdle EXCEPT !.language = l, !.filePath = p] : l \in ProbeTags, p \in ProbePaths}

SelCall ==
    /\ ~sel.called
    /\ sel' = [sel EXCEPT !.called = TRUE,
                          !.validator = getValidator(sel.language, sel.filePath),
                          !.outcome = Dispatch(sel.filePath, sel.language, TRUE)]
    /\ UNCHANGED <<jobvars, esc>>

SelPick ==
    /\ sel.called
    /\ sel' \in SelInputs
    /\ UNCHANGED <<jobvars, esc>>

----------------------------------------------------------------------------
(* Specifications *)

UserStep ==
    \/ \E p \in UiPaths : UserEditPath(p)
    \/ \E l \in ComboItems : UserSelectLanguage(l)
    \/ \E f \in UiPaths : browseForFile(f)
    \/ ClickValidate

FgStep == FgLock \/ FgTestAndSet \/ FgShowStatus \/ FgStartThread

BgStep(j) ==
    \/ BgTry(j)
    \/ BgTryThrows(j)
    \/ BgCheckStart(j)
    \/ BgCheckExit(j)
    \/ BgRunStart(j)
    \/ BgRunExit(j)
    \/ BgValidateThrows(j)
    \/ BgSendMessage(j)
    \/ BgLock(j)
    \/ BgClear(j)

Next ==
    \/ UserStep
    \/ FgStep
    \/ FgDismiss
    \/ \E j \in Jobs : WindowProcApp(j)
    \/ \E j \in Jobs : BgStep(j)

Spec == Init /\ [][Next]_vars

(* Every thread that can run does: the window thread goes on in          *)
(* validateCode and hands sent messages to WindowProc, every subprocess   *)
(* exits, the message box is closed, and a thread blocked in lock() gets  *)
(* g_mutex when it is released again and again.  Exceptions are not       *)
(* forced to happen.                                                      *)
BgProgress(j) ==
    \/ BgTry(j)
    \/ BgCheckStart(j)
    \/ BgCheckExit(j)
    \/ BgRunStart(j)
    \/ BgRunExit(j)
    \/ BgSendMessage(j)
    \/ BgClear(j)

Fairness ==
    /\ WF_vars(FgStep \/ FgDismiss \/ \E j \in Jobs : WindowProcApp(j))
    /\ WF_vars(\E j \in Jobs : BgProgress(j))
    /\ SF_vars(\E j \in Jobs : BgLock(j))

FairSpec == Init /\ [][Next]_vars /\ Fairness

(* escapeFilePath called directly, one statement or loop iteration a step *)

EscInputs == {[EscIdle EXCEPT !.filePath = p] : p \in EscPaths}

(* std::string escaped = filePath; size_t pos = 0; *)
EscEnter ==
    /\ esc.pc = "idle"
    /\ esc' = [esc EXCEPT !.pc = "loop", !.escaped = esc.filePath, !.pos = 1]
    /\ UNCHANGED <<jobvars, sel>>

(* EscLoop returning after the first replacement *)
EscLoop_ReplaceOnce ==
    /\ esc.pc = "loop"
    /\ LET F == {i \in esc.pos..Len(esc.escaped) : esc.escaped[i] = "\\"}
       IN  IF F = {}
           THEN esc' = [esc EXCEPT !.pc = "returned",
                                   !.result = <<"\"">> \o esc.escaped \o <<"\"">>]
           ELSE LET at == Min(F)
                    replaced == SubSeq(esc.escaped, 1, at - 1) \o <<"\\", "\\">>
                                  \o SubSeq(esc.escaped, at + 1, Len(esc.escaped))
                IN  esc' = [esc EXCEPT !.pc = "returned", !.escaped = replaced,
                                       !.pos = at + 2, !.replaced = @ + 1,
                                       !.result = <<"\"">> \o replaced \o <<"\"">>]
    /\ UNCHANGED <<jobvars, sel>>

(* One evaluation of the while condition: find from pos; when a backslash *)
(* is found it is replaced by two and pos moves past both, otherwise the  *)
(* quoted string is returned.                                             *)
EscLoop ==
    /\ esc.pc = "loop"
    /\ LET F == {i \in esc.pos..Len(esc.escaped) : esc.escaped[i] = "\\"}
       IN  IF F = {}
           THEN esc' = [esc EXCEPT !.pc = "returned",
                                   !.result = <<"\"">> \o esc.escaped \o <<"\"">>]
           ELSE LET at == Min(F)
                IN  esc' = [esc EXCEPT
                              !.escaped = SubSeq(esc.escaped, 1, at - 1) \o <<"\\", "\\">>
                                            \o SubSeq(esc.escaped, at + 1, Len(esc.escaped)),
                              !.pos = at + 2,
                              !.replaced = @ + 1]
    /\ UNCHANGED <<jobvars, sel>>

(* The next call, on another path *)
EscPick ==
    /\ esc.pc = "returned"
    /\ esc' \in EscInputs
    /\ UNCHANGED <<jobvars, sel>>

EscInit == JobInit /\ sel = SelIdle /\ esc \in EscInputs

EscNext == EscEnter \/ EscLoop \/ EscPick

EscSpec == EscInit /\ [][EscNext]_vars

(* The thread that called escapeFilePath keeps running *)
EscFairSpec == EscSpec /\ WF_vars(EscEnter \/ EscLoop)

(* The state in which a validation thread is about to call validate: the *)
(* user has given the path of an existing file and a language, the        *)
(* submission was accepted and the try block found a compatible validator *)
ValInit ==
    /\ \E p \in ValPaths, l \in ComboItems :
         LET d == Dispatch(p, l, TRUE)
         IN  /\ d.invoke
             /\ filePathText = p
             /\ languageText = l
             /\ thr = [j \in Jobs |->
                         IF j = 1
                         THEN [Unborn EXCEPT !.pc = "check", !.filePath = p,
                                             !.language = l, !.validator = d.validator,
                                             !.fileExists = "true"]
                         ELSE Unborn]
    /\ g_mutex = NoOwner
    /\ g_validationInProgress = TRUE
    /\ resultText = Lit("Validating...")
    /\ fgpc = "loop"
    /\ started = 1
    /\ rejected = FALSE
    /\ delivered = [j \in Jobs |-> 0]
    /\ sel = SelIdle
    /\ esc = EscIdle

ValNext ==
    \/ \E j \in Jobs : BgCheckStart(j)
    \/ \E j \in Jobs : BgCheckExit(j)
    \/ \E j \in Jobs : BgRunStart(j)
    \/ \E j \in Jobs : BgRunExit(j)
    \/ \E j \in Jobs : BgValidateThrows(j)
    \/ \E j \in Jobs : BgSendMessage(j)
    \/ \E j \in Jobs : WindowProcApp(j)
    \/ \E j \in Jobs : BgLock(j)
    \/ \E j \in Jobs : BgClear(j)

ValSpec == ValInit /\ [][ValNext]_vars

(* The program with a thread construction that may fail *)
FailNext == Next \/ FgThreadFails

FailSpec == Init /\ [][FailNext]_vars

SelInit == JobInit /\ sel \in SelInputs /\ esc = EscIdle

SelNext == SelCall \/ SelPick

SelSpec == SelInit /\ [][SelNext]_vars

----------------------------------------------------------------------------
(* Properties *)

Processing(j) == thr[j].pc \notin {"unborn", "done"}

InSubprocess(j) == thr[j].pc \in {"checking", "running"}

HasResult(j) == thr[j].pc \in {"send", "sent", "lock", "unlock"}

(* The step of validateCode that rejects, and the return from the box *)
RejectStep == fgpc = "vc_test" /\ g_validationInProgress /\ fgpc' # "vc_test"

DismissStep == fgpc = "msgbox" /\ fgpc' # "msgbox"

(* C1: at most one validation thread is processing a request, hence at    *)
(* most one subprocess exists, in every reachable state; and a submission *)
(* made while g_validationInProgress is set is rejected, constructs no    *)
(* thread and starts no subprocess.                                       *)
C1_SingleFlight ==
    /\ [](Cardinality({j \in Jobs : Processing(j)}) <= 1)
    /\ [](Cardinality({j \in Jobs : InSubprocess(j)}) <= 1)
    /\ [][RejectStep => /\ fgpc' = "msgbox"
                        /\ started' = started
                        /\ thr' = thr]_vars
    /\ [][DismissStep => started' = started /\ thr' = thr]_vars

C1_Witness ==
    /\ fgpc = "msgbox"
    /\ \E j \in Jobs : InSubprocess(j)

(* C2: every thread delivers its outcome exactly once: no WM_APP message  *)
(* is handled for it before it has sent, one has been handled once        *)
(* SendMessage returned, never two; and the outcomes handled never exceed *)
(* the submissions accepted, whatever was rejected.                       *)
SumDelivered == Cardinality({j \in Jobs : delivered[j] >= 1})

C2_ExactlyOneOutcome ==
    /\ \A j \in Jobs :
         /\ delivered[j] <= 1
         /\ thr[j].pc \in {"lock", "unlock", "done"} => delivered[j] = 1
         /\ thr[j].pc \in {"unborn", "try", "check", "checking", "run", "running",
                           "send", "sent"} => delivered[j] = 0
         /\ j > started => thr[j].pc = "unborn"
    /\ SumDelivered <= started

C2_Witness ==
    /\ rejected
    /\ \E j \in Jobs : thr[j].pc = "done" /\ delivered[j] = 1
    /\ \E j \in Jobs : thr[j].pc = "lock" /\ thr[j].kind = "exception" /\ delivered[j] = 1

(* C3: the flag goes from set to clear only in the last step of a thread  *)
(* whose outcome has been handled; no thread ends without clearing it;    *)
(* and a thread whose try block raised e delivers the text of the catch   *)
(* clause with e.what().                                                  *)
C3_GuaranteedRelease ==
    /\ [][g_validationInProgress /\ ~g_validationInProgress'
            => \E j \in Jobs : /\ thr[j].pc = "unlock"
                               /\ thr'[j].pc = "done"
                               /\ delivered[j] = 1]_vars
    /\ []((\A j \in Jobs : ~Processing(j)) /\ fgpc \notin {"vc_start", "vc_thread"}
            => ~g_validationInProgress)
    /\ [](\A j \in Jobs :
            /\ thr[j].pc \in {"lock", "unlock"} => resultText = thr[j].result
            /\ HasResult(j) /\ thr[j].kind = "exception"
                 => thr[j].result = <<"Error occurred during validation: ", thr[j].what>>
            /\ HasResult(j) /\ thr[j].what # "" => thr[j].kind = "exception")

C3_Witness ==
    \E j \in Jobs :
        /\ thr[j].pc = "unlock"
        /\ thr[j].kind = "exception"
        /\ thr[j].calls = 1
        /\ g_validationInProgress
        /\ resultText = <<"Error occurred during validation: ", "bad allocation">>

C5_RejectLeavesJobUntouched ==
    [][RejectStep \/ DismissStep
         => /\ g_validationInProgress /\ g_validationInProgress'
            /\ UNCHANGED <<thr, resultText, delivered, started>>]_vars

C5_Witness ==
    /\ rejected
    /\ fgpc = "loop"
    /\ \E j \in Jobs :
         /\ thr[j].pc = "lock"
         /\ thr[j].kind = "run"
         /\ resultText = thr[j].result

(* C6: validateCode never waits: while the foreground thread is inside    *)
(* validateCode its next step is one it can take by itself (the           *)
(* acquisition of g_mutex aside), on the accepted and on the rejected     *)
(* path.                                                                  *)
FgInValidateCode == fgpc \in {"vc_lock", "vc_test", "vc_start", "vc_thread", "msgbox"}

C6_SubmitNeverBlocks ==
    FgInValidateCode => (fgpc = "vc_lock" \/ ENABLED FgStep)

(* C7: a thread whose captured path is empty has the outcome "Please      *)
(* select a file to validate." and never asked whether the file exists; a *)
(* thread with a non-empty path that exists() denied has the outcome      *)
(* "File does not exist: " followed by the path; in both no validator was *)
(* selected, whatever the language tag.                                   *)
C7_RequestShapeErrors ==
    \A j \in Jobs :
        HasResult(j) =>
          /\ thr[j].filePath = <<>>
               => /\ thr[j].result = <<"Please select a file to validate.">>
                  /\ thr[j].fileExists = "uncalled"
                  /\ thr[j].validator = nullptr
          /\ thr[j].filePath # <<>> /\ thr[j].fileExists = "false"
               => /\ thr[j].result = <<"File does not exist: ">> \o thr[j].filePath
                  /\ thr[j].validator = nullptr
          /\ thr[j].fileExists = "uncalled" /\ thr[j].kind # "exception"
               => thr[j].filePath = <<>>

C7_Witness ==
    /\ \E j \in Jobs :
         /\ thr[j].pc = "lock"
         /\ thr[j].filePath = x_py
         /\ thr[j].language = "Java"
         /\ resultText = <<"File does not exist: ", "x", ".", "p", "y">>
    /\ \E k \in Jobs : thr[k].pc = "done"

(* C8: a thread whose request has an empty path, a path that does not     *)
(* exist, no validator or a validator not compatible with the path calls  *)
(* executeCommand at no point; and a thread whose outcome is one of the   *)
(* four input and selection messages has called it zero times.            *)
InputOrSelectionError(t) ==
    \/ t.filePath = <<>>
    \/ t.fileExists = "false"
    \/ /\ t.fileExists = "true"
       /\ \/ getValidator(t.language, t.filePath) = nullptr
          \/ ~isCompatible(getValidator(t.language, t.filePath), t.filePath)

InputAndSelectionMessages ==
    {<<"Please select a file to validate.">>,
     <<"Unsupported file type or language selection.">>,
     <<"Selected language doesn't match the file extension.">>}
      \cup {<<"File does not exist: ">> \o p : p \in UiPaths}

C8_NoSubprocessOnInputOrSelectionError ==
    \A j \in Jobs :
        /\ Processing(j) /\ thr[j].pc # "try" /\ InputOrSelectionError(thr[j])
             => thr[j].calls = 0 /\ HasResult(j)
        /\ HasResult(j) /\ thr[j].result \in InputAndSelectionMessages
             => thr[j].calls = 0
        /\ HasResult(j) /\ thr[j].kind \in {"input", "selection"}
             => thr[j].result \in InputAndSelectionMessages

C8_Witness ==
    \E j \in Jobs :
        /\ thr[j].pc = "lock"
        /\ thr[j].filePath = x_py
        /\ thr[j].language = "Java"
        /\ thr[j].fileExists = "true"
        /\ thr[j].calls = 0
        /\ resultText = <<"Selected language doesn't match the file extension.">>

(* The extension table the selector is to follow *)
AutoTable(ext) ==
    CASE ext = <<".", "j", "a", "v", "a">> -> "Java"
      [] ext = <<".", "p", "y">>           -> "Python"
      [] ext = <<".", "p", "h", "p">>      -> "PHP"
      [] ext = <<".", "j", "s">>           -> "JavaScript"
      [] OTHER                             -> nullptr

(* C9 as claimed: called with the tag "auto" the selector returns the     *)
(* table's variant for the extension of the path: Python for x.py.        *)
C9_AutoSelection_AsClaimed ==
    sel.called /\ sel.language = "auto"
        => sel.validator = AutoTable(extension(sel.filePath))

(* C9 amended: called with the tag "Auto-detect" the selector returns the *)
(* table's variant for the extension of the path and none for any other   *)
(* extension: Python for x.py, none for x.xyz, x.PY, x and .py; the tag   *)
(* "auto" is no tag of the selector and yields none.                      *)
C9_AutoDetectSelection ==
    sel.called =>
      /\ sel.language = "Auto-detect"
           => /\ sel.validator = AutoTable(extension(sel.filePath))
              /\ sel.filePath = x_py => sel.validator = "Python"
              /\ sel.filePath = A_java => sel.validator = "Java"
              /\ sel.filePath = x_php => sel.validator = "PHP"
              /\ sel.filePath = x_js => sel.validator = "JavaScript"
              /\ sel.filePath \in {x_xyz, x_PY, x_noext, dot_py, dir_dot, <<>>}
                   => sel.validator = nullptr
      /\ sel.language = "auto" => sel.validator = nullptr

C9_Witness ==
    /\ sel.called
    /\ sel.language = "Auto-detect"
    /\ sel.filePath = x_py
    /\ sel.validator = "Python"

(* C10: called with one of the tags Java, Python, PHP, JavaScript the     *)
(* selector returns that variant whatever the path; a tag that is neither *)
(* one of them nor "Auto-detect" yields none; and for an existing file    *)
(* whose extension is not the returned variant's the dispatch gives the   *)
(* outcome "Selected language doesn't match the file extension." without  *)
(* calling validate, while a matching extension has validate called.      *)
C10_ExplicitTagWins ==
    sel.called =>
      /\ sel.language \in Variants => sel.validator = sel.language
      /\ sel.language \notin Variants \cup {"Auto-detect"} => sel.validator = nullptr
      /\ sel.filePath # <<>> /\ sel.validator # nullptr
           => IF extension(sel.filePath) = VariantExtension(sel.validator)
              THEN sel.outcome.invoke /\ sel.outcome.validator = sel.validator
              ELSE /\ ~sel.outcome.invoke
                   /\ sel.outcome.result =
                        <<"Selected language doesn't match the file extension.">>

C10_Witness ==
    /\ sel.called
    /\ sel.language = "Java"
    /\ sel.filePath = x_py
    /\ sel.validator = "Java"
    /\ ~sel.outcome.invoke
    /\ sel.outcome.result = <<"Selected language doesn't match the file extension.">>

(* What validate was given by executeCommand when _popen gave no pipe *)
CheckSpawnFailed(t) ==
    /\ t.validator \in Variants
    /\ t.checkResult = PopenFailed(CommandLine(t, "check"))

RunSpawnFailed(t) ==
    /\ t.validator \in Variants
    /\ t.kind = "run"
    /\ t.result = SuccessBanner \o PopenFailed(CommandLine(t, "run"))

ValidateBanners ==
    {"Compilation errors:\n", "Syntax errors:\n",
     "Compilation successful.\nExecution output:\n"}

(* C11: a thread whose check or run subprocess could not be started has   *)
(* an outcome that begins neither with "Compilation errors:" or "Syntax   *)
(* errors:" nor with the success banner, and after a check that could not *)
(* be started the run command is not executed.                            *)
C11_SpawnFailureIsSystemError ==
    \A j \in Jobs :
        /\ CheckSpawnFailed(thr[j])
             => /\ thr[j].pc \notin {"run", "running"}
                /\ thr[j].commands = <<"check">>
        /\ HasResult(j) /\ (CheckSpawnFailed(thr[j]) \/ RunSpawnFailed(thr[j]))
             => Head(thr[j].result) \notin ValidateBanners

(* A check output that forbids the run phase *)
Blocking(v, out) ==
    CASE v \in {"Java", "JavaScript"} -> out # <<>>
      [] v = "PHP"    -> \A i \in 1..Len(out) : out[i] # "No syntax errors"
      [] v = "Python" -> \E i \in 1..Len(out) : out[i] = "SyntaxError"

(* C12: in every call of validate, of every variant, the calls of         *)
(* executeCommand made so far are the check alone or the check and then   *)
(* the run, each at most once; the run is made only after the check       *)
(* returned an output that is not blocking; a validate that returned      *)
(* after a blocking output made no run and returned the compile or syntax *)
(* error with the check output, and one that returned after an output not *)
(* blocking made the run and returned a result headed by the success      *)
(* banner.                                                                *)
C12_CheckThenRun ==
    \A j \in Jobs :
        thr[j].validator \in Variants /\ Processing(j) =>
          LET t == thr[j]
              blocked == Blocking(t.validator, t.checkResult)
          IN  /\ t.commands \in {<<>>, <<"check">>, <<"check", "run">>}
              /\ t.calls = Len(t.commands)
              /\ t.pc = "check" => t.commands = <<>>
              /\ t.pc = "checking" => t.commands = <<"check">>
              /\ t.pc = "run" => t.commands = <<"check">> /\ ~blocked
              /\ t.pc = "running" => t.commands = <<"check", "run">> /\ ~blocked
              /\ HasResult(j) /\ t.kind \in {"compile", "run"}
                   => /\ blocked <=> t.kind = "compile"
                      /\ blocked <=> t.commands = <<"check">>
                      /\ ~blocked <=> t.commands = <<"check", "run">>
                      /\ blocked => /\ Head(t.result) \in {"Compilation errors:\n",
                                                            "Syntax errors:\n"}
                                    /\ Tail(t.result) = t.checkResult
                      /\ ~blocked => Head(t.result) =
                                       "Compilation successful.\nExecution output:\n"

C12_Witness ==
    \E j \in Jobs :
        /\ thr[j].validator = "PHP"
        /\ thr[j].pc = "lock"
        /\ thr[j].checkResult = <<"No syntax errors">>
        /\ thr[j].commands = <<"check", "run">>
        /\ thr[j].result = <<"Compilation successful.\nExecution output:\n", "hi">>
        /\ resultText = thr[j].result

(* The path with every backslash written twice *)
RECURSIVE Doubled(_)
Doubled(path) ==
    IF path = <<>> THEN <<>>
    ELSE (IF Head(path) = "\\" THEN <<"\\", "\\">> ELSE <<Head(path)>>)
           \o Doubled(Tail(path))

Backslashes(path) == Cardinality({i \in 1..Len(path) : path[i] = "\\"})

(* C13: escapeFilePath returns, for every path, a double quote, the path  *)
(* with every backslash written twice and every other character as it     *)
(* was and where it was, and a double quote; its loop makes one           *)
(* replacement for each backslash of the path and then ends, also on a    *)
(* path of backslashes only.                                              *)
C13_EscapeFilePath ==
    /\ [](esc.pc = "returned"
            => /\ esc.result = <<"\"">> \o Doubled(esc.filePath) \o <<"\"">>
               /\ esc.result = escapeFilePath(esc.filePath)
               /\ Len(esc.result) = Len(esc.filePath) + Backslashes(esc.filePath) + 2
               /\ esc.replaced = Backslashes(esc.filePath))
    /\ [](esc.pc = "loop" => esc.replaced <= Backslashes(esc.filePath))
    /\ (esc.pc = "idle" ~> esc.pc = "returned")

C13_Witness ==
    /\ esc.pc = "returned"
    /\ esc.filePath = <<"\\", "\\">>
    /\ esc.replaced = 2
    /\ esc.result = <<"\"", "\\", "\\", "\\", "\\", "\"">>

(* The fixed text of the command lines *)
CommandLiterals ==
    {"javac ", "cd ", " && java ", "python -m py_compile ", "python ", "php -l ",
     "php ", "node --check ", "node ", " 2>&1"}

(* cmd[i..m] is a stretch of the command line taken from the path, with   *)
(* fixed text or an end of the line on both sides                         *)
PathStretch(cmd, i, m) ==
    /\ i <= m
    /\ \A k \in i..m : cmd[k] \notin CommandLiterals
    /\ i = 1 \/ cmd[i - 1] \in CommandLiterals
    /\ m = Len(cmd) \/ cmd[m + 1] \in CommandLiterals

(* The pieces of a path a validator puts into a command line, escaped *)
EscapedPieces(filePath) ==
    {<<"\"">> \o Doubled(piece) \o <<"\"">> :
        piece \in {filePath, parent_path(filePath), filename(filePath), stem(filePath)}}

(* C14: in every command line handed to executeCommand, by the check and  *)
(* by the run of every variant, each stretch that comes from the user's   *)
(* path is a piece of the path as escapeFilePath returns it, the          *)
(* directory and the class name of the Java run command included.         *)
C14_AllPathPiecesEscaped ==
    \A j \in Jobs :
        thr[j].validator \in Variants /\ Processing(j) =>
          \A k \in 1..Len(thr[j].commands) :
              LET cmd == CommandLine(thr[j], thr[j].commands[k])
              IN  \A i, m \in 1..Len(cmd) :
                      PathStretch(cmd, i, m)
                        => SubSeq(cmd, i, m) \in EscapedPieces(thr[j].filePath)

(* C15: the Python validator returns "Syntax errors:" with the check      *)
(* output exactly when that output holds the marker "SyntaxError"; after  *)
(* any other check output, empty or not, it runs the file and returns the *)
(* success banner followed by what the run printed.                       *)
C15_PythonCheckPredicate ==
    \A j \in Jobs :
        thr[j].validator = "Python" /\ Processing(j) =>
          LET t == thr[j]
              marked == \E i \in 1..Len(t.checkResult) : t.checkResult[i] = "SyntaxError"
          IN  /\ t.pc \in {"run", "running"} => ~marked
              /\ HasResult(j) /\ t.kind \in {"compile", "run"}
                   => /\ marked <=> t.kind = "compile"
                      /\ marked => t.result = <<"Syntax errors:\n">> \o t.checkResult
                      /\ ~marked
                           => /\ t.commands = <<"check", "run">>
                              /\ Head(t.result) = "Compilation successful.\nExecution output:\n"
                              /\ Tail(t.result) \in RunOutputs
                                   \cup {PopenFailed(RunCommand("Python", t.filePath))}

C15_Witness ==
    \E j \in Jobs :
        /\ thr[j].validator = "Python"
        /\ thr[j].pc = "send"
        /\ thr[j].checkResult = <<"warning">>
        /\ thr[j].result = <<"Compilation successful.\nExecution output:\n", "hi">>

(* C16: a thread is constructed with the path and the language the two   *)
(* controls hold at the accepted click and keeps both to its end; the     *)
(* validator it selected, the branch it took and an input or selection    *)
(* outcome are those of its captured path and language, whatever the      *)
(* controls hold meanwhile; and the outcome WindowProc displays is the    *)
(* thread's own.                                                          *)
C16_RequestImmutable ==
    /\ [][\A j \in Jobs :
            /\ thr[j].pc = "unborn" /\ thr'[j].pc # "unborn"
                 => /\ thr'[j].pc = "try"
                    /\ thr'[j].filePath = filePathText
                    /\ thr'[j].language = languageText
            /\ Processing(j) /\ Processing(j)'
                 => /\ thr'[j].filePath = thr[j].filePath
                    /\ thr'[j].language = thr[j].language
            /\ delivered'[j] # delivered[j] => resultText' = thr[j].result]_vars
    /\ [](\A j \in Jobs :
            Processing(j) /\ thr[j].pc # "try" /\ thr[j].kind # "exception"
              => LET t == thr[j]
                     d == Dispatch(t.filePath, t.language, t.fileExists = "true")
                 IN  /\ t.validator = d.validator
                     /\ d.invoke <=> (t.pc \in {"check", "checking", "run", "running"}
                                        \/ t.kind \in {"compile", "run"})
                     /\ ~d.invoke => t.result = d.result /\ t.calls = 0)

C16_Witness ==
    \E j \in Jobs :
        /\ thr[j].pc = "lock"
        /\ thr[j].filePath = x_py
        /\ thr[j].language = "Python"
        /\ thr[j].kind = "run"
        /\ filePathText = A_java
        /\ languageText = "Java"
        /\ resultText = <<"Compilation successful.\nExecution output:\n", "hi">>

(* C17: whenever the foreground thread is not between the setting of the *)
(* flag and the construction of the thread, and the process runs, the     *)
(* flag is set exactly when one validation thread has been started and    *)
(* has not cleared it: a set flag has a thread that will clear it, also   *)
(* after the construction of the thread failed, and no thread works with  *)
(* the flag clear.                                                        *)
C17_FlagIffOneThread ==
    fgpc \notin {"vc_start", "vc_thread", "terminated"}
      => (g_validationInProgress <=> Cardinality({j \in Jobs : Processing(j)}) = 1)

(* C18: a validator the selector returns for "Auto-detect" is compatible *)
(* with the path it was selected for; the outcome "Selected language      *)
(* doesn't match the file extension." comes only with one of the four     *)
(* language tags; and with "Auto-detect" an existing file whose extension *)
(* is that of a variant in other letter case, or is missing, has the      *)
(* outcome "Unsupported file type or language selection.".                *)
C18_AutoDetectAlwaysCompatible ==
    sel.called =>
      /\ sel.language = "Auto-detect" /\ sel.validator # nullptr
           => isCompatible(sel.validator, sel.filePath)
      /\ sel.outcome.result = <<"Selected language doesn't match the file extension.">>
           => sel.language \in {"Java", "Python", "PHP", "JavaScript"}
      /\ sel.language = "Auto-detect" /\ sel.filePath \in {x_PY, x_noext, dot_py, dir_dot}
           => /\ sel.outcome.result = <<"Unsupported file type or language selection.">>
              /\ ~sel.outcome.invoke

C18_Witness ==
    /\ sel.called
    /\ sel.language = "Auto-detect"
    /\ sel.filePath = x_PY
    /\ sel.validator = nullptr
    /\ sel.outcome.result = <<"Unsupported file type or language selection.">>

(* C19: when a validation thread is constructed the display already      *)
(* holds "Validating..." and nothing of that thread has been delivered;   *)
(* an outcome is written to the display by the handling of the message of *)
(* the thread constructed last, and is that thread's result; the flag is  *)
(* cleared by that thread with its result on the display, and while the   *)
(* flag stays clear the display stays: with the flag clear after a thread *)
(* was constructed the display is never "Validating...".                  *)
C19_DisplayOrdering ==
    /\ [][\A j \in Jobs :
            /\ thr[j].pc = "unborn" /\ thr'[j].pc # "unborn"
                 => /\ resultText = <<"Validating...">>
                    /\ resultText' = <<"Validating...">>
                    /\ delivered[j] = 0
                    /\ j = started'
            /\ delivered'[j] # delivered[j]
                 => /\ thr[j].pc = "sent"
                    /\ resultText = <<"Validating...">>
                    /\ resultText' = thr[j].result
                    /\ j = started]_vars
    /\ [][g_validationInProgress /\ ~g_validationInProgress'
            => /\ thr[started].pc = "unlock"
               /\ delivered[started] = 1
               /\ resultText = thr[started].result
               /\ resultText' = resultText]_vars
    /\ [][~g_validationInProgress /\ ~g_validationInProgress'
            => resultText' = resultText]_vars
    /\ [](~g_validationInProgress /\ started >= 1
            => /\ resultText # <<"Validating...">>
               /\ delivered[started] = 1
               /\ \A j \in Jobs : ~Processing(j))

C19_Witness ==
    /\ ~g_validationInProgress
    /\ started = 2
    /\ thr[1].pc = "done"
    /\ thr[2].pc = "done"
    /\ delivered = <<1, 1>>
    /\ resultText = <<"File does not exist: ", "x", ".", "p", "y">>

====
